---------------------------- MODULE Spec2Model ----------------------------
(***************************************************************************)
(* LSM6DS3Sensor (src/src/sensors/LSM6DS3sensor.cpp): the start-up         *)
(* sequence motionSetup, the per-tick pipeline motionLoop with             *)
(* getScaledValues, and the calibration run startCalibration.              *)
(*                                                                         *)
(* Build configuration of the file: DISABLE_ASCALE true, MADGWICK false,   *)
(* FORCE_CALIBRATION false (lines 30-32), so the #if branches at lines     *)
(* 37-39, 94-95 and 129-133 are compiled out.  ENABLE_INSPECTION only adds *)
(* inspection packets and is taken as off.  OPTIMIZE_UPDATES is a build    *)
(* flag set outside this file and is kept as a configuration variable.     *)
(*                                                                         *)
(* Numbers: raw counts are integers; float values are exact rationals      *)
(* [n, d] in lowest terms (sums of 300 int16 counts are exact in a float;  *)
(* the rounding of the one division by 300 and of the scaling is not       *)
(* modelled).  The timing fields now/last/deltat feed only the opaque      *)
(* fusion filter, which is a nondeterministic choice of the next state.    *)
(***************************************************************************)
EXTENDS Integers, Sequences, FiniteSets, TLC

(* ------------------------------ bounds -------------------------------- *)
\* sample streams the device can deliver are numbered 0..MaxStream
MaxStream == 1
\* raw accelerometer Z counts read at start-up range over -MaxRawZ..MaxRawZ
MaxRawZ == 1

(* --------------------------- program constants ------------------------ *)
calibrationSamples == 300
FlipDelayMs == 5000
SettleDelayMs == 2000
AccelDelayMs == 250

(* ------------------------------ rationals ----------------------------- *)
Abs(x) == IF x < 0 THEN -x ELSE x

RECURSIVE GCD(_, _)
GCD(a, b) == IF b = 0 THEN a ELSE GCD(b, a % b)

\* the rational n/d (d # 0) in lowest terms with a positive denominator
Rat(n, d) ==
    LET g == GCD(Abs(n), Abs(d))
        s == IF d < 0 THEN -1 ELSE 1
    IN  [n |-> (s * n) \div g, d |-> (s * d) \div g]

RInt(i) == [n |-> i, d |-> 1]
R0 == RInt(0)
RSub(x, y) == Rat(x.n * y.d - y.n * x.d, x.d * y.d)
RMul(x, y) == Rat(x.n * y.n, x.d * y.d)
RDivInt(x, k) == Rat(x.n, x.d * k)
RLess(x, y) == x.n * y.d < y.n * x.d


(* ------------------------- raw sensor interface ----------------------- *)
Streams == 0..MaxStream

\* imu.getMotion6: the k-th sample <<ax, ay, az, gx, gy, gz>> of stream s, a
\* synthetic int16 sample stream whose per-axis means are known and distinct
Raw6(s, k) ==
    << ((k + s) % 3) - 1,
       (k % 2) + s,
       ((k * (s + 1)) % 4) - 2,
       ((k * (s + 2)) % 5) - s,
       (k % 3) - 2 * s,
       ((k + s) % 7) + 1 >>

\* imu.getRawAccelZ: the raw Z counts the device can report at start-up
RawZ == (-MaxRawZ)..MaxRawZ

\* the readings one tick can get from imu.getMotion6: the first two samples
\* of any stream
TickReadings == { Raw6(s, k) : s \in Streams, k \in {0, 1} }

\* imu.gscale: the device's gyroscope scale, set by the driver
GScales == { Rat(1, 2), Rat(3, 1) }

(* ----------------------------- quaternions ---------------------------- *)
\* fixed-point unit: the float 1.0 of a quaternion component
QUnit == 15
\* Quat::equalsWithEpsilon compares component-wise against this threshold
QEps == 2
\* how far the filter state can drift, in fixed-point steps
MaxDrift == 2

Quat(x, y, z, w) == [x |-> x, y |-> y, z |-> z, w |-> w]

\* Quat::operator*= : the Hamilton product a * b
QuatMul(a, b) ==
    Quat(a.w * b.x + a.x * b.w + a.y * b.z - a.z * b.y,
         a.w * b.y + a.y * b.w + a.z * b.x - a.x * b.z,
         a.w * b.z + a.z * b.w + a.x * b.y - a.y * b.x,
         a.w * b.w - a.x * b.x - a.y * b.y - a.z * b.z)

\* Quat::equalsWithEpsilon: every component closer than the threshold
equalsWithEpsilon(a, b) ==
    /\ Abs(a.x - b.x) < QEps
    /\ Abs(a.y - b.y) < QEps
    /\ Abs(a.z - b.z) < QEps
    /\ Abs(a.w - b.w) < QEps

QuatNormSq(a) == a.x * a.x + a.y * a.y + a.z * a.z + a.w * a.w
ArrNormSq(f) == f[0] * f[0] + f[1] * f[1] + f[2] * f[2] + f[3] * f[3]

\* float q[4] as a function on 0..3
QArr(a, b, c, d) == [i \in 0..3 |-> CASE i = 0 -> a [] i = 1 -> b [] i = 2 -> c [] OTHER -> d]

\* states the fusion filter (mahonyQuaternionUpdate) can return: the rest
\* state, a unit state with four different components, and states drifting
\* from it by one fixed-point step at a time
FilterStates ==
    { QArr(QUnit, 0, 0, 0) } \cup { QArr(13, 2, 4, 6 + j) : j \in 0..MaxDrift }

\* the mounting offsets a sensor can be built with: none, half a turn about Z
SensorOffsets == { Quat(0, 0, 0, 1), Quat(0, 0, 1, 0) }

(* --------------------------- calibration data ------------------------- *)
Vec3(a, b, c) == [i \in 0..2 |-> CASE i = 0 -> a [] i = 1 -> b [] OTHER -> c]

\* LSM6DS3CalibrationConfig with every term at its initial value
ZeroCalibration ==
    [ G_off  |-> Vec3(R0, R0, R0),
      A_B    |-> Vec3(R0, R0, R0),
      A_Ainv |-> [r \in 0..2 |-> Vec3(R0, R0, R0)] ]

\* the union of a stored record read as lsm6ds3 when another sensor wrote it
ForeignData ==
    [ G_off  |-> Vec3(RInt(9), RInt(9), RInt(9)),
      A_B    |-> Vec3(RInt(9), RInt(9), RInt(9)),
      A_Ainv |-> [r \in 0..2 |-> Vec3(RInt(9), RInt(9), RInt(9))] ]

\* a record an earlier calibration of this sensor persisted before first
\* power-up of the behaviour
EarlierRecord ==
    [ G_off  |-> Vec3(Rat(1, 3), RInt(-2), Rat(5, 2)),
      A_B    |-> Vec3(RInt(4), Rat(-1, 2), RInt(6)),
      A_Ainv |-> [r \in 0..2 |-> Vec3(RInt(r + 1), Rat(1, 4), RInt(-r))] ]

NoneConfig == [type |-> "NONE", data |-> ZeroCalibration]
OtherConfig == [type |-> "OTHER", data |-> ForeignData]
LSM6DS3Config(data) == [type |-> "LSM6DS3", data |-> data]

SensorIds == {0, 1}

\* configuration.getCalibration(id)
getCalibration(store, id) == store[id]
\* configuration.setCalibration(id, record)
setCalibration(store, id, rec) == [store EXCEPT ![id] = rec]

\* CalculateCalibration: a deterministic batch fit of n triples to a 4x3
\* matrix; the ellipsoid fit itself is outside this file and is stood for by
\* a function of the column sums that gives every entry a different value
RECURSIVE ColumnSum(_, _, _, _)
\* the sum of column c of triples from..from+n-1 of the buffer
ColumnSum(buf, c, from, n) ==
    IF n = 0 THEN 0
    ELSE IF n = 1 THEN buf[from * 3 + c]
    ELSE LET h == n \div 2
         IN  ColumnSum(buf, c, from, h) + ColumnSum(buf, c, from + h, n - h)

CalculateCalibration(buf, n) ==
    [r \in 0..3 |-> [c \in 0..2 |-> Rat(ColumnSum(buf, c, 0, n) + 7 * r + c, n)]]


(* ------------------------------- state --------------------------------- *)
VARIABLES
    OPTIMIZE_UPDATES,   \* build flag: output throttling enabled
    sensorOffset,       \* fixed mounting offset of this sensor
    gscale,             \* imu.gscale
    sensorId,           \* this sensor's id in the configuration store
    connected,          \* what imu.testConnection() answers
    flash,              \* the configuration store as persisted by save()
    configuration,      \* the configuration store in memory: id -> record
    working,            \* Sensor::working
    newData,            \* Sensor::newData
    m_Calibration,      \* the live calibration record
    q,                  \* filter state float q[4]
    quaternion,         \* Sensor::quaternion
    lastQuatSent,       \* Sensor::lastQuatSent
    pc,                 \* where the single control thread is
    ret,                \* where startCalibration returns to
    op,                 \* the handler running, or the last one that ran
    az,                 \* motionSetup: int16_t az
    g_az,               \* motionSetup: float g_az
    Gxyz,               \* startCalibration: float Gxyz[3]
    calibrationDataAcc, \* startCalibration: the malloc'ed sample buffer
    A_BAinv,            \* startCalibration: float A_BAinv[4][3]
    AGxyz,              \* motionLoop: float AGxyz[6]
    raw,                \* getScaledValues: the six counts getMotion6 returned
    remapped,           \* motionLoop: quaternion right after quaternion.set
    imuStream,          \* the sample stream the device delivers to this run
    imuPos,             \* samples of that stream already read
    led,                \* ledManager state
    elapsed,            \* milliseconds spent in delay() by the handler
    log,                \* messages the handler logged, in order
    telemetry,          \* Network:: events the handler sent, in order
    mahonyCalls,        \* mahonyQuaternionUpdate calls made by the handler
    connTests,          \* imu.testConnection calls made by the handler
    setupCal,           \* startCalibration calls made by motionSetup
    sensorCalibrationType, \* motionSetup: sensorCalibration.type, "unread" before line 62
    calibrated,         \* history: startCalibration was entered since construction
    calibration,        \* startCalibration: the CalibrationConfig local of lines 200-202
    heap,               \* what malloc gave this run: "none" before line 171, then
                        \* "allocated" or "null", "released" once free() took it back
    accesses,           \* history: the buffer accesses of this run, each with the
                        \* index range it touched and what the pointer designated
    calls,              \* history: the collaborator calls of this run, in order
    savedRun            \* history: the stream of the run whose record save() persisted, -1 if none

config == <<OPTIMIZE_UPDATES, sensorOffset, gscale, sensorId>>
store == <<flash, configuration, savedRun>>
pipeline == <<newData, q, quaternion, lastQuatSent, AGxyz, raw, remapped, mahonyCalls>>
setupLocals == <<az, g_az, connTests, setupCal, sensorCalibrationType>>
calLocals == <<Gxyz, calibrationDataAcc, A_BAinv, imuStream, imuPos, calibrated,
               calibration, heap, accesses, calls>>

vars == <<OPTIMIZE_UPDATES, sensorOffset, gscale, sensorId, connected, flash,
          configuration, working, newData, m_Calibration, q, quaternion,
          lastQuatSent, pc, ret, op, az, g_az, Gxyz, calibrationDataAcc,
          A_BAinv, AGxyz, raw, remapped, imuStream, imuPos, led, elapsed, log,
          telemetry, mahonyCalls, connTests, setupCal, sensorCalibrationType,
          calibrated, calibration, heap, accesses, calls, savedRun>>

\* calibrationDataAcc holds the floats the pointer designates: none while the
\* pointer is unset or null, and none once the block is released
NULL == [j \in {} |-> 0]
ZeroVec6 == [i \in 0..5 |-> R0]
ZeroFit == [r \in 0..3 |-> Vec3(R0, R0, R0)]


(* ------------- what a run must produce, from the stream alone --------- *)
RECURSIVE AxisSum(_, _, _, _)
\* the sum of component axis (1..6) of samples from..from+n-1 of stream s
AxisSum(s, axis, from, n) ==
    IF n = 0 THEN 0
    ELSE IF n = 1 THEN Raw6(s, from)[axis]
    ELSE LET h == n \div 2
         IN  AxisSum(s, axis, from, h) + AxisSum(s, axis, from + h, n - h)

\* the sum of the first 300 gyroscope samples of stream s, per axis
StreamGyroSum ==
    [s \in Streams |-> [a \in 0..2 |-> AxisSum(s, 4 + a, 0, calibrationSamples)]]

\* their mean
StreamGyroMean ==
    [s \in Streams |-> [a \in 0..2 |-> Rat(StreamGyroSum[s][a], calibrationSamples)]]

\* the next 300 accelerometer triples of stream s, laid out as the buffer
StreamAccelBuffer ==
    [s \in Streams |->
        [j \in 0..(3 * calibrationSamples - 1) |->
            Raw6(s, calibrationSamples + (j \div 3))[1 + (j % 3)]]]

StreamFit ==
    [s \in Streams |-> CalculateCalibration(StreamAccelBuffer[s], calibrationSamples)]

\* the record a completed run over stream s leaves
RunRecord ==
    [s \in Streams |->
        [ G_off  |-> StreamGyroMean[s],
          A_B    |-> StreamFit[s][0],
          A_Ainv |-> [r \in 0..2 |-> StreamFit[s][r + 1]] ]]

(* ----------------------------- construction --------------------------- *)
\* the sensor object's fields as constructed, and the handlers' locals cleared
Constructed ==
    /\ working = FALSE
    /\ newData = FALSE
    /\ m_Calibration = ZeroCalibration
    /\ q = QArr(QUnit, 0, 0, 0)
    /\ quaternion = Quat(0, 0, 0, QUnit)
    /\ lastQuatSent = Quat(0, 0, 0, QUnit)
    /\ pc = "boot"
    /\ ret = "idle"
    /\ op = "none"
    /\ az = 0
    /\ g_az = R0
    /\ Gxyz = Vec3(R0, R0, R0)
    /\ calibrationDataAcc = NULL
    /\ A_BAinv = ZeroFit
    /\ AGxyz = ZeroVec6
    /\ raw = <<0, 0, 0, 0, 0, 0>>
    /\ remapped = Quat(0, 0, 0, QUnit)
    /\ imuStream = 0
    /\ imuPos = 0
    /\ led = "off"
    /\ elapsed = 0
    /\ log = <<>>
    /\ telemetry = <<>>
    /\ mahonyCalls = 0
    /\ connTests = 0
    /\ setupCal = 0
    /\ sensorCalibrationType = "unread"
    /\ calibrated = FALSE
    /\ calibration = NoneConfig
    /\ heap = "none"
    /\ accesses = {}
    /\ calls = <<>>

\* first power-up of a sensor built with one of the given mounting offsets and
\* gyro scales.  The persisted store can hold for this sensor: nothing,
\* another sensor type's record, or the record of an earlier calibration
InitOver(offsets, scales, ids) ==
    /\ OPTIMIZE_UPDATES \in BOOLEAN
    /\ sensorOffset \in offsets
    /\ gscale \in scales
    /\ sensorId \in ids
    /\ connected \in BOOLEAN
    /\ \E rec \in {NoneConfig, OtherConfig, LSM6DS3Config(EarlierRecord)} :
          flash = [id \in SensorIds |-> IF id = sensorId THEN rec ELSE NoneConfig]
    /\ savedRun = -1
    /\ configuration = flash
    /\ Constructed

\* power cycle: RAM is lost, the persisted store is read back, the device
\* answers the connection test or not
Reboot ==
    /\ connected' \in BOOLEAN
    /\ configuration' = flash
    /\ working' = FALSE
    /\ newData' = FALSE
    /\ m_Calibration' = ZeroCalibration
    /\ q' = QArr(QUnit, 0, 0, 0)
    /\ quaternion' = Quat(0, 0, 0, QUnit)
    /\ lastQuatSent' = Quat(0, 0, 0, QUnit)
    /\ pc' = "boot"
    /\ ret' = "idle"
    /\ op' = "none"
    /\ az' = 0
    /\ g_az' = R0
    /\ Gxyz' = Vec3(R0, R0, R0)
    /\ calibrationDataAcc' = NULL
    /\ A_BAinv' = ZeroFit
    /\ AGxyz' = ZeroVec6
    /\ raw' = <<0, 0, 0, 0, 0, 0>>
    /\ remapped' = Quat(0, 0, 0, QUnit)
    /\ imuStream' = 0
    /\ imuPos' = 0
    /\ led' = "off"
    /\ elapsed' = 0
    /\ log' = <<>>
    /\ telemetry' = <<>>
    /\ mahonyCalls' = 0
    /\ connTests' = 0
    /\ setupCal' = 0
    /\ sensorCalibrationType' = "unread"
    /\ calibrated' = FALSE
    /\ calibration' = NoneConfig
    /\ heap' = "none"
    /\ accesses' = {}
    /\ calls' = <<>>
    /\ UNCHANGED <<config, flash, savedRun>>


(* ------------------------------ motionSetup --------------------------- *)
FaceDown(g) == RLess(g, Rat(-3, 4))      \* g_az < -0.75f
FaceUp(g) == RLess(Rat(3, 4), g)         \* g_az > 0.75f

\* startCalibration, lines 141-148: indicator on, messages, settle delay
CalBegin(retpc, logBefore, elapsedBefore) ==
    /\ led' = "on"
    /\ log' = logBefore \o <<"debug_gathering", "info_put_down">>
    /\ elapsed' = elapsedBefore + SettleDelayMs
    /\ telemetry' = <<>>
    /\ Gxyz' = Vec3(R0, R0, R0)
    /\ A_BAinv' = ZeroFit
    /\ calibrationDataAcc' = NULL
    /\ \E s \in Streams : imuStream' = s
    /\ imuPos' = 0
    /\ calibrated' = TRUE
    /\ calibration' = NoneConfig
    /\ heap' = "none"
    /\ accesses' = {}
    /\ calls' = <<>>
    /\ ret' = retpc
    /\ pc' = "cal_gyro"

\* faulty variant of SetupFatal: carries on to mark the sensor working
SetupFatalStillWorking ==
    /\ log' = <<"fatal_cant_connect">>
    /\ pc' = "idle"
    /\ working' = TRUE
    /\ UNCHANGED <<m_Calibration, store, pipeline, calLocals, az, g_az,
                   setupCal, led, elapsed, telemetry, ret>>

\* lines 40-44: the connection test failed
SetupFatal ==
    /\ log' = <<"fatal_cant_connect">>
    /\ pc' = "idle"
    /\ UNCHANGED <<working, m_Calibration, store, pipeline, calLocals, az, g_az,
                   setupCal, led, elapsed, telemetry, ret>>

\* lines 45-60: the flip gesture.  z1 is the count the first getRawAccelZ
\* returns, z2 the count the second one returns after the wait
SetupFlipCheck(z1, z2) ==
    LET g == RInt(z1)                     \* line 49, never assigned again
        prompted == FaceDown(g)           \* line 50
        confirmed == prompted /\ FaceUp(g)   \* line 55 tests g_az, not the new az
        msgs == <<"info_connected">>
                  \o (IF prompted THEN <<"info_flip">> ELSE <<>>)
                  \o (IF confirmed THEN <<"debug_starting_calibration">> ELSE <<>>)
        waited == IF prompted THEN FlipDelayMs ELSE 0
    IN  /\ g_az' = g
        /\ az' = (IF prompted THEN z2 ELSE z1)
        /\ IF confirmed
             THEN /\ setupCal' = setupCal + 1
                  /\ CalBegin("setup_load", msgs, waited)
             ELSE /\ setupCal' = setupCal
                  /\ log' = msgs
                  /\ elapsed' = waited
                  /\ pc' = "setup_load"
                  /\ UNCHANGED <<calLocals, led, telemetry, ret>>
        /\ UNCHANGED <<working, m_Calibration, store, pipeline>>

\* lines 34-60
MotionSetupBegin ==
    /\ pc = "boot"
    /\ op' = "motionSetup"
    /\ connTests' = 1
    /\ sensorCalibrationType' = sensorCalibrationType
    /\ IF ~connected
         THEN SetupFatal
         ELSE \E z1 \in RawZ, z2 \in RawZ : SetupFlipCheck(z1, z2)
    /\ UNCHANGED <<config, connected>>

\* faulty variant of loadCalibration: copies the gyro offset only
loadCalibrationGyroOnly(rec, live) ==
    IF rec.type = "LSM6DS3" THEN [live EXCEPT !.G_off = rec.data.G_off] ELSE live

\* faulty variant of loadCalibration: copies whatever type the record has
loadCalibrationAnyType(rec, live) ==
    IF rec.type # "NONE" THEN rec.data ELSE live

\* lines 63-75: the live record after the switch on the stored record's type
loadCalibration(rec, live) ==
    IF rec.type = "LSM6DS3" THEN rec.data ELSE live

loadMessages(rec) ==
    CASE rec.type = "LSM6DS3" -> <<>>
      [] rec.type = "NONE" -> <<"warn_no_calibration", "info_advised">>
      [] OTHER -> <<"warn_incompatible", "info_advised">>

\* lines 61-78
MotionSetupLoad ==
    /\ pc = "setup_load"
    /\ LET sensorCalibration == getCalibration(configuration, sensorId)
       IN  /\ sensorCalibrationType' = sensorCalibration.type
           /\ m_Calibration' = loadCalibration(sensorCalibration, m_Calibration)
           /\ log' = log \o loadMessages(sensorCalibration)
    /\ working' = TRUE
    /\ pc' = "idle"
    /\ UNCHANGED <<config, connected, store, pipeline, az, g_az, connTests,
                   setupCal, calLocals, ret, op, led, elapsed, telemetry>>


(* ------------------------------ motionLoop ---------------------------- *)
\* faulty variant of getScaledValues: the offset is taken off the accelerometer
\* count of the axis instead of the gyroscope count
getScaledValuesFromAccel(r, cal, gs) ==
    [i \in 0..5 |->
        IF i < 3 THEN RInt(r[i + 1])
        ELSE RMul(RSub(RInt(r[i - 2]), cal.G_off[i - 3]), gs)]

\* faulty variant of getScaledValues: the accelerometer bias of the record is
\* taken off the accelerometer counts
getScaledValuesAccelCorrected(r, cal, gs) ==
    [i \in 0..5 |->
        IF i < 3 THEN RSub(RInt(r[i + 1]), cal.A_B[i])
        ELSE RMul(RSub(RInt(r[i + 1]), cal.G_off[i - 3]), gs)]

\* getScaledValues, lines 124-136 with DISABLE_ASCALE: r = <<ax,ay,az,gx,gy,gz>>
getScaledValues(r, cal, gs) ==
    [i \in 0..5 |->
        IF i < 3 THEN RInt(r[i + 1])
        ELSE RMul(RSub(RInt(r[i + 1]), cal.G_off[i - 3]), gs)]

\* faulty variant of Remap: q[1] is used twice and q[0] dropped
RemapRepeated(f) == Quat(-f[2], f[1], f[3], f[1])

\* line 99: quaternion.set(-q[2], q[1], q[3], q[0])
Remap(f) == Quat(-f[2], f[1], f[3], f[0])

\* faulty variant of marksNewData: the build flag is not looked at
marksNewDataIgnoringFlag(opt, last, quat) == ~equalsWithEpsilon(last, quat)

\* faulty variant of marksNewData: the negation of the comparison is lost
marksNewDataOnEqual(opt, last, quat) == ~opt \/ equalsWithEpsilon(last, quat)

\* line 108: whether the tick marks new data
marksNewData(opt, last, quat) == ~opt \/ ~equalsWithEpsilon(last, quat)

TemperatureEvent(id) == [type |-> "TEMPERATURE", sensor |-> id]

\* faulty variant of tickTelemetry: the temperature goes out only with new data
tickTelemetryWhenMarked(mark, id) == IF mark THEN << TemperatureEvent(id) >> ELSE << >>

\* line 101 comes before the test of line 108 and does not depend on it
tickTelemetry(mark, id) == << TemperatureEvent(id) >>

\* variant of motionLoop that returns at once on a sensor that is not working
motionLoopIfWorking(r, qn) ==
    IF working
    THEN LET scaled == [i \in 0..5 |->
                          IF i < 3 THEN RInt(r[i + 1])
                          ELSE RMul(RSub(RInt(r[i + 1]), m_Calibration.G_off[i - 3]), gscale)]
             set == Quat(-qn[2], qn[1], qn[3], qn[0])
             quat == QuatMul(set, sensorOffset)
             mark == ~OPTIMIZE_UPDATES \/ ~equalsWithEpsilon(lastQuatSent, quat)
         IN  /\ raw' = r
             /\ AGxyz' = scaled
             /\ q' = qn
             /\ mahonyCalls' = 1
             /\ remapped' = set
             /\ quaternion' = quat
             /\ telemetry' = <<[type |-> "TEMPERATURE", sensor |-> sensorId]>>
             /\ newData' = (IF mark THEN TRUE ELSE newData)
             /\ lastQuatSent' = (IF mark THEN quat ELSE lastQuatSent)
    ELSE /\ mahonyCalls' = 0
         /\ telemetry' = <<>>
         /\ UNCHANGED <<raw, AGxyz, q, remapped, quaternion, newData, lastQuatSent>>

\* faulty variant of motionLoop: newData is assigned the outcome of the test,
\* so a tick that marks nothing clears a mark the caller has not yet consumed
motionLoopClearsNewData(r, qn) ==
    LET scaled == [i \in 0..5 |->
                     IF i < 3 THEN RInt(r[i + 1])
                     ELSE RMul(RSub(RInt(r[i + 1]), m_Calibration.G_off[i - 3]), gscale)]
        set == Quat(-qn[2], qn[1], qn[3], qn[0])
        quat == QuatMul(set, sensorOffset)
        mark == ~OPTIMIZE_UPDATES \/ ~equalsWithEpsilon(lastQuatSent, quat)
    IN  /\ raw' = r
        /\ AGxyz' = scaled
        /\ q' = qn
        /\ mahonyCalls' = 1
        /\ remapped' = set
        /\ quaternion' = quat
        /\ telemetry' = <<[type |-> "TEMPERATURE", sensor |-> sensorId]>>
        /\ newData' = mark
        /\ lastQuatSent' = (IF mark THEN quat ELSE lastQuatSent)

\* one tick, lines 80-113: r is what getMotion6 returns, qn the filter state
\* mahonyQuaternionUpdate leaves
motionLoop(r, qn) ==
    LET scaled == getScaledValues(r, m_Calibration, gscale)
        set == Remap(qn)
        quat == QuatMul(set, sensorOffset)
        mark == marksNewData(OPTIMIZE_UPDATES, lastQuatSent, quat)
    IN  /\ raw' = r
        /\ AGxyz' = scaled
        /\ q' = qn
        /\ mahonyCalls' = 1
        /\ remapped' = set
        /\ quaternion' = quat
        /\ telemetry' = tickTelemetry(mark, sensorId)
        /\ newData' = (IF mark THEN TRUE ELSE newData)
        /\ lastQuatSent' = (IF mark THEN quat ELSE lastQuatSent)

\* the caller's loop calls motionLoop on every pass once motionSetup returned;
\* the device delivers one of `readings`, the filter leaves one of `states`
MotionLoopOver(readings, states) ==
    /\ pc = "idle"
    /\ op' = "motionLoop"
    /\ log' = <<>>
    /\ elapsed' = 0
    /\ \E r \in readings, qn \in states : motionLoop(r, qn)
    /\ UNCHANGED <<config, connected, store, working, m_Calibration, pc, ret,
                   setupLocals, calLocals, led>>

\* Sensor::sendData: the caller consumes the new-data mark
SendData ==
    /\ pc = "idle"
    /\ newData
    /\ newData' = FALSE
    /\ op' = "sendData"
    /\ log' = <<>>
    /\ elapsed' = 0
    /\ telemetry' = <<[type |-> "ROTATION", sensor |-> sensorId]>>
    /\ mahonyCalls' = 0
    /\ UNCHANGED <<config, connected, store, working, m_Calibration, pc, ret,
                   setupLocals, calLocals, led, q, quaternion, lastQuatSent,
                   AGxyz, raw, remapped>>


(* ---------------------------- startCalibration ------------------------ *)
\* faulty variant of GyroPass: the X axis accumulates the accelerometer count
GyroPassMixedAxes(acc, m) == <<acc[1] + m[1], acc[2] + m[5], acc[3] + m[6]>>

\* lines 151-155: one pass of the gyro loop adds the sample m to Gxyz
GyroPass(acc, m) == <<acc[1] + m[4], acc[2] + m[5], acc[3] + m[6]>>

RECURSIVE GyroLoop(_, _, _)
\* lines 149-156: what n passes add to Gxyz, the first of them reading sample
\* `from` of stream s; the counts are integers, so the passes are summed in
\* two halves
GyroLoop(s, from, n) ==
    IF n = 0 THEN <<0, 0, 0>>
    ELSE IF n = 1 THEN GyroPass(<<0, 0, 0>>, Raw6(s, from))
    ELSE LET h == n \div 2
             a == GyroLoop(s, from, h)
             b == GyroLoop(s, from + h, n - h)
         IN  <<a[1] + b[1], a[2] + b[2], a[3] + b[3]>>

\* lines 157-159: Gxyz[a] /= calibrationSamples
GyroAverage(sums) == [a \in 0..2 |-> RDivInt(RInt(sums[a + 1]), calibrationSamples)]

\* Network::sendRawCalibrationData(vector, type, 0) sends vector[0..2]
RawCalibrationEvent(type, vector) ==
    [type |-> type, data |-> <<vector[0], vector[1], vector[2]>>]

\* lines 172-178: entry j of the buffer after n passes of the accelerometer
\* loop, pass i storing the triple of sample from+i at i*3+0..2; malloc'ed
\* memory is written before it is read and is 0 here until then
BufferAt(s, from, n, j) ==
    IF j < 3 * n THEN Raw6(s, from + (j \div 3))[1 + (j % 3)] ELSE 0

BufferAfter(s, from, n) ==
    [j \in 0..(3 * calibrationSamples - 1) |-> BufferAt(s, from, n, j)]

\* line 179 in pass i: sendRawCalibrationData gets the buffer pointer itself,
\* so it sends the entries 0..2 of the buffer as they are after i+1 passes
AccelEvent(s, from, i) ==
    RawCalibrationEvent("EXTERNAL_ACCEL", [k \in 0..2 |-> BufferAt(s, from, i + 1, k)])

\* lines 172-182: the buffer the loop leaves and the events it sent
AccelLoop(s, from, n) ==
    [buf |-> BufferAfter(s, from, n),
     events |-> [i \in 1..n |-> AccelEvent(s, from, i - 1)]]

\* The three loops over a whole run's samples, worked out once per stream for
\* a run that starts reading at sample 0 (CalBegin sets imuPos to 0)
GyroLoopOfRun == [s \in Streams |-> GyroLoop(s, 0, calibrationSamples)]
AccelLoopOfRun == [s \in Streams |-> AccelLoop(s, calibrationSamples, calibrationSamples)]
FitOfRun == [s \in Streams |-> CalculateCalibration(AccelLoopOfRun[s].buf, calibrationSamples)]

\* lines 149-156 as run from the state (s, pos)
RunGyroLoop(s, pos) ==
    IF pos = 0 THEN GyroLoopOfRun[s] ELSE GyroLoop(s, pos, calibrationSamples)

\* lines 172-182 as run from the state (s, pos)
RunAccelLoop(s, pos) ==
    IF pos = calibrationSamples THEN AccelLoopOfRun[s]
    ELSE AccelLoop(s, pos, calibrationSamples)

\* line 185 on the buffer buf, which stream s filled
RunFit(buf, s) ==
    IF buf = AccelLoopOfRun[s].buf THEN FitOfRun[s]
    ELSE CalculateCalibration(buf, calibrationSamples)

\* faulty variant of withAccelTerms: the bias is copied, the matrix is not
withAccelBiasOnly(cal, fit) ==
    [cal EXCEPT !.A_B = [i \in 0..2 |-> fit[0][i]]]

\* lines 190-197: the accelerometer terms copied out of the fit result
withAccelTerms(cal, fit) ==
    [cal EXCEPT !.A_B = [i \in 0..2 |-> fit[0][i]],
                !.A_Ainv = [r \in 0..2 |-> [i \in 0..2 |-> fit[r + 1][i]]]]

\* lines 165-167: the gyro offset written into the live record
withGyroOffset(cal, g) == [cal EXCEPT !.G_off = g]

\* faulty variant of GyroEvents: the averaged vector is sent twice
GyroEventsTwice(g) ==
    << RawCalibrationEvent("EXTERNAL_GYRO", g), RawCalibrationEvent("EXTERNAL_GYRO", g) >>

\* line 164, after the loop and the division: one event carrying Gxyz
GyroEvents(g) == << RawCalibrationEvent("EXTERNAL_GYRO", g) >>

\* a calibration request from outside motionSetup (a command of the operator)
StartCalibration ==
    /\ pc = "idle"
    /\ op' = "startCalibration"
    /\ mahonyCalls' = 0
    /\ CalBegin("idle", <<>>, 0)
    /\ UNCHANGED <<config, connected, store, working, m_Calibration, newData, q,
                   quaternion, lastQuatSent, AGxyz, raw, remapped, setupLocals>>

\* lines 149-170: gyro bias capture
CalGyroBias ==
    /\ pc = "cal_gyro"
    /\ LET mean == GyroAverage(RunGyroLoop(imuStream, imuPos))
       IN  /\ Gxyz' = mean
           /\ telemetry' = telemetry \o GyroEvents(mean)
           /\ m_Calibration' = withGyroOffset(m_Calibration, mean)
    /\ imuPos' = imuPos + calibrationSamples
    /\ log' = Append(log, "info_rotate")
    /\ led' = "pattern"
    /\ pc' = "cal_accel"
    /\ UNCHANGED <<config, connected, store, working, pipeline, setupLocals, ret,
                   op, elapsed, calibrationDataAcc, A_BAinv, imuStream, calibrated,
                   calibration, heap, accesses, calls>>

\* the buffer accesses of the run: the entries lo..hi touched, and what the
\* pointer designated then.  n passes of lines 176-178 store at 0 .. 3(n-1)+2
StoreAccess(n, on) == [kind |-> "store", lo |-> 0, hi |-> (n - 1) * 3 + 2, on |-> on]
\* line 179: sendRawCalibrationData reads three floats at the pointer it gets
SendAccess(on) == [kind |-> "send", lo |-> 0, hi |-> 2, on |-> on]
\* line 185: CalculateCalibration reads n triples
FitAccess(n, on) == [kind |-> "fit", lo |-> 0, hi |-> 3 * n - 1, on |-> on]

\* lines 171-182: accelerometer capture.  malloc's result is not tested.  With
\* no memory the stores of lines 176-178 go through a null pointer, which is
\* undefined: either the first store traps and the firmware stops there, or
\* the stores land at address 0 and up, read back, and the run carries on
CalAccelCapture ==
    /\ pc = "cal_accel"
    /\ \E allocated \in BOOLEAN, trapped \in BOOLEAN :
         IF allocated \/ ~trapped
         THEN LET loop == RunAccelLoop(imuStream, imuPos)
                  on == IF allocated THEN "allocated" ELSE "null"
              IN  /\ heap' = on
                  /\ calibrationDataAcc' = loop.buf
                  /\ accesses' = { StoreAccess(calibrationSamples, on), SendAccess(on) }
                  /\ telemetry' = telemetry \o loop.events
                  /\ imuPos' = imuPos + calibrationSamples
                  /\ elapsed' = elapsed + calibrationSamples * AccelDelayMs
                  /\ led' = "off"
                  /\ pc' = "cal_fit"
         ELSE /\ heap' = "null"
              /\ calibrationDataAcc' = NULL
              /\ accesses' = { StoreAccess(1, "null") }
              /\ imuPos' = imuPos + 1
              /\ pc' = "crashed"
              /\ UNCHANGED <<telemetry, elapsed, led>>
    /\ calls' = Append(calls, "malloc")
    /\ UNCHANGED <<config, connected, store, working, m_Calibration, pipeline,
                   setupLocals, ret, op, log, Gxyz, A_BAinv, imuStream, calibrated,
                   calibration>>

\* lines 183-187: the fit, then the buffer is released; free(NULL) does nothing
CalFit ==
    /\ pc = "cal_fit"
    /\ A_BAinv' = RunFit(calibrationDataAcc, imuStream)
    /\ accesses' = accesses \cup { FitAccess(calibrationSamples, heap) }
    /\ calibrationDataAcc' = NULL
    /\ heap' = (IF heap = "allocated" THEN "released" ELSE heap)
    /\ calls' = calls \o <<"CalculateCalibration", "free">>
    /\ log' = log \o <<"debug_calculating", "debug_finished_calculate">>
    /\ pc' = "cal_persist"
    /\ UNCHANGED <<config, connected, store, working, m_Calibration, pipeline,
                   setupLocals, ret, op, led, elapsed, telemetry, Gxyz, imuStream,
                   imuPos, calibrated, calibration>>

\* faulty variant of persistSteps: the store is saved before the record is set
persistStepsSaveFirst == <<"save", "setCalibration", "sendCalibrationFinished">>

\* lines 203-206: the collaborator calls that end a run, in order
persistSteps == <<"setCalibration", "save", "sendCalibrationFinished">>

RECURSIVE StoreAfter(_, _, _, _, _)
\* the store in memory and as persisted after the calls `steps`: setCalibration
\* puts rec at id in memory, save() writes the memory out
StoreAfter(steps, mem, disk, id, rec) ==
    IF steps = <<>> THEN [mem |-> mem, disk |-> disk]
    ELSE LET step == Head(steps)
         IN  StoreAfter(Tail(steps),
                        IF step = "setCalibration" THEN setCalibration(mem, id, rec) ELSE mem,
                        IF step = "save" THEN mem ELSE disk,
                        id, rec)

\* lines 188-208: the accelerometer terms, setCalibration, save(), finished
CalPersist ==
    /\ pc = "cal_persist"
    /\ LET live == withAccelTerms(m_Calibration, A_BAinv)
           record == LSM6DS3Config(live)                 \* lines 200-202
           saved == StoreAfter(persistSteps, configuration, flash, sensorId, record)
       IN  /\ m_Calibration' = live
           /\ calibration' = record
           /\ configuration' = saved.mem
           /\ flash' = saved.disk
    /\ calls' = calls \o persistSteps
    /\ savedRun' = imuStream
    /\ led' = "off"
    /\ telemetry' = Append(telemetry, [type |-> "CALIBRATION_FINISHED", sensor |-> 0])
    /\ log' = log \o <<"debug_matrix", "debug_saving", "debug_saved", "info_gathered">>
    /\ pc' = ret
    /\ UNCHANGED <<config, connected, working, pipeline, setupLocals, ret, op,
                   elapsed, Gxyz, calibrationDataAcc, A_BAinv, imuStream, imuPos,
                   calibrated, heap, accesses>>

(* ---------------------------- specification --------------------------- *)
\* the whole life of the sensor: start-up, ticks, calibration runs, power
\* cycles.  One mounting offset and gyro scale, and ticks that read one of
\* two samples and leave the filter at rest or at one other state
Init == InitOver({Quat(0, 0, 0, 1)}, {Rat(1, 2)}, SensorIds)

MotionLoopCoarse ==
    MotionLoopOver({Raw6(0, 0), Raw6(MaxStream, 1)},
                   {QArr(QUnit, 0, 0, 0), QArr(13, 2, 4, 6)})

Next ==
    \/ MotionSetupBegin
    \/ MotionSetupLoad
    \/ MotionLoopCoarse
    \/ SendData
    \/ StartCalibration
    \/ CalGyroBias
    \/ CalAccelCapture
    \/ CalFit
    \/ CalPersist
    \/ Reboot

Spec == Init /\ [][Next]_vars

\* the per-tick pipeline over every mounting offset, gyro scale, reading and
\* filter state, on one sensor that is started and power cycled but not
\* recalibrated
InitPipeline == InitOver(SensorOffsets, GScales, {1})

MotionLoop == MotionLoopOver(TickReadings, FilterStates)

NextPipeline ==
    \/ MotionSetupBegin
    \/ MotionSetupLoad
    \/ MotionLoop
    \/ SendData
    \/ Reboot

SpecPipeline == InitPipeline /\ [][NextPipeline]_vars

\* startCalibration is straight-line blocking code on the one control thread:
\* a phase that can run does run.  Power cycles and the caller's requests
\* happen or not
RunsOn ==
    /\ WF_vars(CalGyroBias)
    /\ WF_vars(CalAccelCapture)
    /\ WF_vars(CalFit)
    /\ WF_vars(CalPersist)

SpecLive == Spec /\ RunsOn


(* ------------------------------- properties --------------------------- *)
Range(f) == { f[i] : i \in DOMAIN f }

\* the records a completed calibration can have left in the live record
ValidRecords == { EarlierRecord } \cup { RunRecord[s] : s \in Streams }

\* the control points inside a calibration run after its first phase
AfterGyroPhase == { "cal_accel", "cal_fit", "cal_persist", "crashed" }
InRun == AfterGyroPhase \cup { "cal_gyro" }

\* C1: when the connection test passed, motionSetup has called
\* startCalibration exactly once by the time it is about to load the stored
\* record if the first Z count read face-down (< -0.75) and the count read
\* after the wait read face-up (> 0.75), and not at all for any other pair.
C1_FlipGestureStartsCalibration ==
    pc = "setup_load" =>
        setupCal = (IF FaceDown(g_az) /\ FaceUp(RInt(az)) THEN 1 ELSE 0)

\* C2: a motionSetup whose connection test fails leaves working false, logs
\* the fatal message, leaves the live record and the store (in memory and as
\* persisted) as they were, starts no calibration run, returns, and has
\* tested the connection once.
C2_FailedConnectionLeavesSensorDown ==
    [][ (pc = "boot" /\ ~connected /\ op' = "motionSetup") =>
            /\ working = FALSE /\ working' = FALSE
            /\ log' = <<"fatal_cant_connect">>
            /\ m_Calibration' = m_Calibration
            /\ configuration' = configuration
            /\ flash' = flash
            /\ pc' = "idle"
            /\ setupCal' = 0 /\ calibrated' = FALSE /\ imuPos' = 0
            /\ connTests' = 1 ]_vars

C2_Witness ==
    /\ pc = "idle" /\ op = "motionSetup" /\ ~working
    /\ log = <<"fatal_cant_connect">> /\ connTests = 1

\* C3: when a calibration run returns, the record it stored for sensorId and
\* persisted holds the gyro offset and the fit result the run computed; and
\* when a later motionSetup has loaded the record of the run that last saved
\* (or the earlier record, if no run saved), the live record's gyro offset,
\* accelerometer bias and matrix equal that run's values over its stream.
C3_CalibrationRoundTrip ==
    /\ (pc = "idle" /\ op = "startCalibration") =>
          /\ configuration[sensorId] = LSM6DS3Config(RunRecord[imuStream])
          /\ flash = configuration
          /\ savedRun = imuStream
    /\ (pc = "idle" /\ op = "motionSetup" /\ sensorCalibrationType = "LSM6DS3") =>
          m_Calibration = (IF savedRun >= 0 THEN RunRecord[savedRun] ELSE EarlierRecord)

C3_Witness ==
    /\ pc = "idle" /\ op = "motionSetup" /\ sensorCalibrationType = "LSM6DS3"
    /\ savedRun >= 0 /\ ~calibrated
    /\ m_Calibration = RunRecord[savedRun]

\* C4 as stated: in every state, those inside a calibration run included, the
\* live record is Absent or holds the terms of one completed run.
C4_LiveRecordAbsentOrValidAlways ==
    m_Calibration \in { ZeroCalibration } \cup ValidRecords

\* C4 as amended: outside calibration runs the live record is Absent or holds
\* the terms of one completed run; inside a run it is untouched until the
\* gyro phase ends, and from then until the run returns it holds this run's
\* gyro offset with the accelerometer terms it had before the run.
C4_LiveRecordValidOutsideRuns ==
    /\ pc \notin AfterGyroPhase =>
          m_Calibration \in { ZeroCalibration } \cup ValidRecords
    /\ pc \in AfterGyroPhase =>
          /\ m_Calibration.G_off = StreamGyroMean[imuStream]
          /\ \E old \in { ZeroCalibration } \cup ValidRecords :
                /\ m_Calibration.A_B = old.A_B
                /\ m_Calibration.A_Ainv = old.A_Ainv

C4_Witness ==
    /\ pc = "cal_persist"
    /\ m_Calibration.G_off = StreamGyroMean[imuStream]
    /\ m_Calibration.A_B = EarlierRecord.A_B
    /\ m_Calibration \notin { ZeroCalibration } \cup ValidRecords

\* what getScaledValues must give for the gyroscope axes if the offset is off
ScaledAsIfOffset(off) ==
    \A a \in 0..2 :
        AGxyz[3 + a].n * off[a].d * gscale.d
            = (raw[4 + a] * off[a].d - off[a].n) * gscale.n * AGxyz[3 + a].d

\* C5 as stated: once motionSetup found no record or one of another type,
\* every later tick scales the gyroscope counts as if the offset were 0.
C5_AbsentRecordScalesWithZeroEver ==
    (op = "motionLoop" /\ sensorCalibrationType \in {"NONE", "OTHER"}) =>
        ScaledAsIfOffset(ZeroCalibration.G_off)

\* C5 as amended: a motionSetup that passed the connection test and found no
\* record or one of another type has logged a warning, copied nothing into
\* the live record and set working; every tick after it and before any
\* calibration run scales the gyroscope counts as if the offset were 0.
C5_AbsentRecordScalesWithZero ==
    /\ (pc = "idle" /\ op = "motionSetup" /\ sensorCalibrationType \in {"NONE", "OTHER"}) =>
          /\ working
          /\ m_Calibration = ZeroCalibration
          /\ \/ "warn_no_calibration" \in Range(log)
             \/ "warn_incompatible" \in Range(log)
    /\ (op = "motionLoop" /\ sensorCalibrationType \in {"NONE", "OTHER"} /\ ~calibrated) =>
          /\ working
          /\ ScaledAsIfOffset(ZeroCalibration.G_off)

C5_Witness ==
    /\ op = "motionLoop" /\ sensorCalibrationType = "OTHER" /\ ~calibrated
    /\ working /\ raw[4] # 0 /\ AGxyz[3] = RMul(RInt(raw[4]), gscale)

\* C6: a tick with throttling on whose quaternion is within epsilon of
\* lastQuatSent leaves newData and lastQuatSent as they were; any other tick
\* sets newData and makes lastQuatSent the new quaternion.
C6_ChangeDetection ==
    [][ (pc = "idle" /\ pc' = "idle" /\ op' = "motionLoop") =>
            IF OPTIMIZE_UPDATES /\ equalsWithEpsilon(lastQuatSent, quaternion')
            THEN newData' = newData /\ lastQuatSent' = lastQuatSent
            ELSE newData' = TRUE /\ lastQuatSent' = quaternion' ]_vars

C6_Witness ==
    /\ op = "motionLoop" /\ OPTIMIZE_UPDATES /\ ~newData
    /\ quaternion # lastQuatSent
    /\ equalsWithEpsilon(lastQuatSent, quaternion)

\* C7: no sample is read before the settle delay has passed; the gyro phase
\* reads exactly 300 samples, and the gyro offset it leaves is, axis by axis,
\* the sum of that axis over those 300 gyroscope samples divided by 300.
C7_GyroOffsetIsMeanOf300 ==
    /\ pc = "cal_gyro" => (imuPos = 0 /\ elapsed >= SettleDelayMs)
    /\ pc = "cal_accel" =>
          /\ imuPos = calibrationSamples
          /\ \A a \in 0..2 :
                /\ Gxyz[a].n * calibrationSamples = StreamGyroSum[imuStream][a] * Gxyz[a].d
                /\ m_Calibration.G_off[a] = Gxyz[a]

C7_Witness ==
    /\ pc = "cal_accel" /\ imuPos = calibrationSamples
    /\ Gxyz = StreamGyroMean[imuStream]
    /\ Gxyz[2].d # 1
    /\ Gxyz[0] # Gxyz[1]

\* C8: after a tick, every gyroscope output is (count - offset of the axis)
\* times the gyroscope scale, whatever the accelerometer counts were.
C8_GyroScaling ==
    op = "motionLoop" => ScaledAsIfOffset(m_Calibration.G_off)

C8_Witness ==
    /\ op = "motionLoop" /\ m_Calibration.G_off = EarlierRecord.G_off
    /\ raw[4] # 0 /\ raw[4] # raw[1]
    /\ AGxyz[3].d # 1

\* C9: the quaternion set from the filter state q is (x,y,z,w) =
\* (-q[2], q[1], q[3], q[0]); its norm is that of q, a unit q gives a unit one.
C9_AxisRemap ==
    op = "motionLoop" =>
        /\ remapped.x = -q[2] /\ remapped.y = q[1]
        /\ remapped.z = q[3] /\ remapped.w = q[0]
        /\ QuatNormSq(remapped) = ArrNormSq(q)
        /\ (ArrNormSq(q) = QUnit * QUnit => QuatNormSq(remapped) = QUnit * QUnit)

C9_Witness ==
    /\ op = "motionLoop" /\ q = QArr(13, 2, 4, 6)
    /\ remapped = Quat(-4, 2, 6, 13)
    /\ QuatNormSq(remapped) = QUnit * QUnit

\* C10 as stated: while the sensor is not working no filter step has been
\* made, no temperature event sent and newData is not set.
C10_NoTickUnlessWorking ==
    ~working =>
        /\ mahonyCalls = 0
        /\ TemperatureEvent(sensorId) \notin Range(telemetry)
        /\ ~newData

\* C10 as amended: motionLoop does not look at working; every call, also on a
\* sensor that is not working, makes one filter step, sends one temperature
\* event and marks new data as change detection says.
C10_TickRunsWhateverWorking ==
    op = "motionLoop" =>
        /\ mahonyCalls = 1
        /\ telemetry = <<TemperatureEvent(sensorId)>>
        /\ (~OPTIMIZE_UPDATES => (newData /\ lastQuatSent = quaternion))

C10_Witness ==
    /\ op = "motionLoop" /\ ~working
    /\ mahonyCalls = 1 /\ newData
    /\ telemetry = <<TemperatureEvent(sensorId)>>

\* the phases of a run in their order; the last one returns to the caller
PhaseOrder ==
    { <<"cal_gyro", "cal_accel">>, <<"cal_accel", "cal_fit">>,
      <<"cal_fit", "cal_persist">>, <<"cal_persist", ret>> }

\* C11: a run is entered at GyroBiasCapture only; from a phase of a run the
\* control thread goes to the next phase and nowhere else (a power cycle
\* apart), Persisting returning to the caller; and a run that has started
\* always gets back to the caller, if the power is not cut first.
C11_RunPassesAllPhasesAndReturns ==
    /\ [][ /\ (pc \notin InRun /\ pc' \in InRun) => pc' = "cal_gyro"
           /\ (pc \in InRun /\ pc' # pc /\ pc' # "boot") => <<pc, pc'>> \in PhaseOrder ]_vars
    /\ (pc = "cal_gyro") ~> (pc \in {"idle", "setup_load", "boot"})

\* how often x occurs in the sequence, and where it occurs first
Count(seq, x) == Cardinality({ i \in DOMAIN seq : seq[i] = x })
IndexOf(seq, x) == CHOOSE i \in DOMAIN seq : seq[i] = x /\ \A j \in 1..(i - 1) : seq[j] # x

FinishedEvent == [type |-> "CALIBRATION_FINISHED", sensor |-> 0]

\* C12: until a run's Persisting step has run, setCalibration, save() and the
\* finished event have not happened; when the run has returned each has
\* happened exactly once, setCalibration before save() before the finished
\* event, all after CalculateCalibration; and the record handed to
\* setCalibration has the LSM6DS3 tag, the mean of this run's gyroscope
\* samples as offset and the fit of this run's accelerometer samples as
\* bias and matrix.
C12_PersistOnceInOrderAfterFit ==
    /\ pc \in InRun =>
          /\ Count(calls, "setCalibration") = 0
          /\ Count(calls, "save") = 0
          /\ Count(calls, "sendCalibrationFinished") = 0
          /\ Count(telemetry, FinishedEvent) = 0
    /\ (pc = "idle" /\ op = "startCalibration") =>
          /\ Count(calls, "CalculateCalibration") = 1
          /\ Count(calls, "setCalibration") = 1
          /\ Count(calls, "save") = 1
          /\ Count(calls, "sendCalibrationFinished") = 1
          /\ IndexOf(calls, "CalculateCalibration") < IndexOf(calls, "setCalibration")
          /\ IndexOf(calls, "setCalibration") < IndexOf(calls, "save")
          /\ IndexOf(calls, "save") < IndexOf(calls, "sendCalibrationFinished")
          /\ Count(telemetry, FinishedEvent) = 1
          /\ telemetry[Len(telemetry)] = FinishedEvent
          /\ calibration.type = "LSM6DS3"
          /\ calibration.data.G_off = StreamGyroMean[imuStream]
          /\ calibration.data.A_B = StreamFit[imuStream][0]
          /\ \A r \in 0..2 : calibration.data.A_Ainv[r] = StreamFit[imuStream][r + 1]

C12_Witness ==
    /\ pc = "idle" /\ op = "startCalibration" /\ imuStream = MaxStream
    /\ calls = <<"malloc", "CalculateCalibration", "free",
                 "setCalibration", "save", "sendCalibrationFinished">>
    /\ calibration = LSM6DS3Config(RunRecord[imuStream])
    /\ flash[sensorId] = calibration

\* the events of one type among those the handler sent, in order
EventsOfType(type) == SelectSeq(telemetry, LAMBDA e : e.type = type)

\* C13: when the gyro phase of a run has ended, the run has sent 300
\* "external gyro" events, the i-th carrying the i-th raw gyroscope sample
\* the phase read.
C13_EachGyroSampleStreamed ==
    pc = "cal_accel" =>
        LET sent == EventsOfType("EXTERNAL_GYRO")
        IN  /\ Len(sent) = calibrationSamples
            /\ \A i \in 1..calibrationSamples :
                   sent[i].data = << RInt(Raw6(imuStream, i - 1)[4]),
                                    RInt(Raw6(imuStream, i - 1)[5]),
                                    RInt(Raw6(imuStream, i - 1)[6]) >>

\* C13 as amended: the gyro phase sends nothing while it reads its samples;
\* when it has ended the run has sent exactly one "external gyro" event, and
\* that event carries the per-axis mean of the 300 samples, the new offset.
C13_OneGyroEventCarriesMean ==
    /\ pc = "cal_gyro" => telemetry = <<>>
    /\ pc = "cal_accel" =>
          LET sent == EventsOfType("EXTERNAL_GYRO")
          IN  /\ Len(sent) = 1
              /\ telemetry = sent
              /\ sent[1].data = << StreamGyroMean[imuStream][0],
                                   StreamGyroMean[imuStream][1],
                                   StreamGyroMean[imuStream][2] >>
              /\ sent[1].data = << m_Calibration.G_off[0], m_Calibration.G_off[1],
                                   m_Calibration.G_off[2] >>

C13_Witness ==
    /\ pc = "cal_accel" /\ imuPos = calibrationSamples
    /\ Len(telemetry) = 1 /\ telemetry[1].type = "EXTERNAL_GYRO"
    /\ telemetry[1].data[1] = Gxyz[0] /\ Gxyz[0] # RInt(Raw6(imuStream, 0)[4])

\* C14: when the accelerometer phase of a run has ended it has read 300
\* samples, one per delay interval, stored their triples at 3i..3i+2, sent
\* 300 "external accel" events, the i-th carrying the triple stored at
\* position i, and left the indicator off.
C14_AccelEventCarriesItsTriple ==
    pc = "cal_fit" =>
        LET sent == EventsOfType("EXTERNAL_ACCEL")
        IN  /\ imuPos = 2 * calibrationSamples
            /\ elapsed = SettleDelayMs + calibrationSamples * AccelDelayMs
            /\ led = "off"
            /\ Len(sent) = calibrationSamples
            /\ \A i \in 0..(calibrationSamples - 1) :
                   /\ \A k \in 0..2 :
                         calibrationDataAcc[i * 3 + k]
                            = Raw6(imuStream, calibrationSamples + i)[1 + k]
                   /\ sent[i + 1].data = << calibrationDataAcc[i * 3 + 0],
                                            calibrationDataAcc[i * 3 + 1],
                                            calibrationDataAcc[i * 3 + 2] >>

\* C15: the events a tick sends are one temperature event for this sensor and
\* nothing else, on the ticks that marked new data and on those that did not.
C15_TemperatureEveryTick ==
    op = "motionLoop" =>
        /\ Count(telemetry, TemperatureEvent(sensorId)) = 1
        /\ Len(EventsOfType("TEMPERATURE")) = 1
        /\ Len(telemetry) = 1

\* a tick that marked nothing: throttling on, no new data pending, and the
\* quaternion moved by less than epsilon
C15_Witness ==
    /\ op = "motionLoop" /\ OPTIMIZE_UPDATES /\ ~newData
    /\ lastQuatSent # quaternion
    /\ telemetry = << TemperatureEvent(sensorId) >>

\* records whose accelerometer bias and matrix the live ones are swapped for
AccelVariants == { ZeroCalibration, EarlierRecord, ForeignData }

\* the record with the accelerometer terms of alt and everything else of cal
withAccelOf(cal, alt) == [cal EXCEPT !.A_B = alt.A_B, !.A_Ainv = alt.A_Ainv]

\* C16: after a tick, getScaledValues on the same six counts and any record
\* that differs from the live one in accelerometer bias and matrix only gives
\* the six values the tick got, and the three accelerometer values are the
\* raw counts.
C16_ScalingIgnoresAccelTerms ==
    op = "motionLoop" =>
        /\ \A alt \in AccelVariants :
               getScaledValues(raw, withAccelOf(m_Calibration, alt), gscale) = AGxyz
        /\ \A k \in 0..2 : AGxyz[k] = RInt(raw[k + 1])

C16_Witness ==
    /\ op = "motionLoop" /\ m_Calibration = EarlierRecord
    /\ raw[1] # 0 /\ AGxyz[0] = RInt(raw[1])
    /\ withAccelOf(m_Calibration, ForeignData) # m_Calibration
    /\ getScaledValues(raw, withAccelOf(m_Calibration, ForeignData), gscale) = AGxyz

\* C17: with throttling on, after a tick the quaternion is within epsilon of
\* lastQuatSent, however the filter state got there: lastQuatSent stays where
\* it was through steps smaller than epsilon, so the step that takes the
\* quaternion epsilon or more away from it marks new data and moves it.
C17_DriftStaysWithinEpsilon ==
    (op = "motionLoop" /\ OPTIMIZE_UPDATES) =>
        equalsWithEpsilon(lastQuatSent, quaternion)

\* one drift step below epsilon away from the last quaternion marked
C17_Witness ==
    /\ op = "motionLoop" /\ OPTIMIZE_UPDATES
    /\ q = QArr(13, 2, 4, 7)
    /\ lastQuatSent = QuatMul(Remap(QArr(13, 2, 4, 6)), sensorOffset)
    /\ lastQuatSent # quaternion

\* C18: a tick leaves the live record, the store in memory and as persisted,
\* and the working flag as they were, and leaves newData set if it was set.
C18_TickFrame ==
    [][ op' = "motionLoop" =>
            /\ m_Calibration' = m_Calibration
            /\ configuration' = configuration
            /\ flash' = flash
            /\ working' = working
            /\ (newData => newData') ]_vars

\* a tick on a sensor recalibrated since start-up, with new data pending
C18_Witness ==
    /\ op = "motionLoop" /\ OPTIMIZE_UPDATES /\ newData /\ working
    /\ calibrated /\ savedRun >= 0
    /\ m_Calibration = RunRecord[savedRun]
    /\ configuration[sensorId] = LSM6DS3Config(m_Calibration)
    /\ flash = configuration

\* C19: every access a run made to the sample buffer went to a block malloc
\* had given and free() had not yet taken back, at entries within
\* 0 .. 3*300-1; a run calls malloc at most once and free at most once; and
\* when it has returned it has called each once, free after the fit, the fit
\* having read the whole buffer, and the block is released.
C19_BufferAccessesAreSafe ==
    /\ \A a \in accesses :
          /\ a.on = "allocated"
          /\ 0 <= a.lo /\ a.lo <= a.hi /\ a.hi < 3 * calibrationSamples
    /\ Count(calls, "malloc") <= 1
    /\ Count(calls, "free") <= 1
    /\ (pc = "idle" /\ op = "startCalibration") =>
          /\ Count(calls, "malloc") = 1
          /\ Count(calls, "free") = 1
          /\ IndexOf(calls, "CalculateCalibration") < IndexOf(calls, "free")
          /\ FitAccess(calibrationSamples, "allocated") \in accesses
          /\ heap = "released"

=============================================================================
